---- MODULE Spec2Model ----
(***************************************************************************)
(* Outreach Orchestration Engine of open-build/foundry                     *)
(* (src/scripts/startup_outreach.py and its callers).                      *)
(*                                                                         *)
(* Strings that matter are modelled by what the code does with them:       *)
(*  - an email address is a record [lp, dm, uc]: local part, domain and    *)
(*    whether the string is written in upper case, so that "A@ACME" and    *)
(*    "a@acme" are different strings with the same str.lower();            *)
(*    dm = "" stands for a string without '@'; a domain string is [dm, uc] *)
(*  - a timestamp is a day number; an Optional timestamp is <<>> (None)    *)
(*    or <<t>>;                                                            *)
(*  - the sub-day part of a PendingOutreach timestamp, which makes the     *)
(*    (email, timestamp) identity unique, is the entry's id.               *)
(***************************************************************************)
EXTENDS Integers, Sequences, FiniteSets, TLC

VARIABLES
    now,              \* datetime.now(), in days
    opt_outs,         \* opt_outs.json / self.opt_outs['opt_outs'] (saved on every mutation)
    dContacts,        \* contacts.json
    dPending,         \* pending_outreach.json
    dLog,             \* outreach_log.json
    contacts,         \* self.contacts of the running process
    pending_outreach, \* self.pending_outreach of the running process
    outreach_log,     \* self.outreach_log of the running process
    pc,               \* position of the running process ("idle": none runs)
    sess,             \* the dispatch session: messages still to walk, flags
    nextId,           \* next fresh PendingOutreach identity
    attempts,         \* history: transport attempts of the running process
    batch,            \* history: result of the last run_outreach_phase
    targets,          \* self.targets of a discovery pass
    dTargets,         \* targets.json
    scraped,          \* history: the scraper calls of the running pass and what they returned
    lastPass,         \* history: day and saved targets of the last completed pass
    calls             \* history: the emails add_opt_out was called for, the last one, its result

vars == <<now, opt_outs, dContacts, dPending, dLog, contacts, pending_outreach,
          outreach_log, pc, sess, nextId, attempts, batch, targets, dTargets,
          scraped, lastPass, calls>>

engineVars == <<now, opt_outs, calls, dContacts, dPending, dLog, contacts,
                pending_outreach, outreach_log, pc, sess, nextId, attempts, batch>>

discVars == <<targets, dTargets, scraped, lastPass>>

-----------------------------------------------------------------------------
(* Bounds of the model *)

MaxEntries == 2         \* PendingOutreach entries composed over a whole run
MaxSel == 2             \* length of an operator-typed index list
MaxFail == 1            \* failed entries in a process's outreach log
MaxQueries == 1         \* search queries of discover_new_targets (the code has 8)
MaxPages == 1           \* pages one scrape of a target gets an answer from
MaxStore == 3           \* records in the contact store
MaxDay == 7             \* last day the discovery clock reaches

(* Program constants *)

max_outreach_per_target == 4
min_outreach_per_target == 2
CooldownDays == 30
DomainDays == 7
RescrapeDays == 7

-----------------------------------------------------------------------------
(* Strings *)

Email(lp, dm, uc) == [lp |-> lp, dm |-> dm, uc |-> uc]

EmptyString == Email("", "", FALSE)

\* str.lower()
Lower(e) == [e EXCEPT !.uc = FALSE]

test_domains == {"example"}

\* is_test_email
is_test_email(e) ==
    IF e = EmptyString \/ e.dm = "" THEN TRUE ELSE e.dm \in test_domains

\* email.split('@')[1], without the .lower()
RawDomain(e) == [dm |-> e.dm, uc |-> IF e.dm = "" THEN FALSE ELSE e.uc]

\* get_domain_from_email: email.split('@')[1].lower(), '' without '@'
get_domain_from_email(e) == [dm |-> e.dm, uc |-> FALSE]

Range(s) == {s[i] : i \in DOMAIN s}

\* sequence s without its element at position i
RemoveAt(s, i) == [j \in 1..(Len(s) - 1) |-> IF j < i THEN s[j] ELSE s[j + 1]]

-----------------------------------------------------------------------------
(* Records *)

\* Contact(...) as created by discovery: outreach_count 0, dates None
NewContact(e, org) ==
    [email |-> e, organization |-> org, contact_date |-> <<>>,
     outreach_count |-> 0, last_contact |-> <<>>]

\* dict.get(key, '') on an outreach-log entry
LogGet(entry, key) == IF key \in DOMAIN entry THEN entry[key] ELSE EmptyString

-----------------------------------------------------------------------------
(* Opt-out registry *)

\* load_opt_outs when opt_outs.json does not exist, on day t
load_opt_outs(t) ==
    [opt_outs |-> <<>>, created |-> t, last_updated |-> t, total_opt_outs |-> 0]

IsOptedOutCaseSensitive(oo, e) ==
    e \in {oo.opt_outs[i].email : i \in DOMAIN oo.opt_outs}

\* is_opted_out: both sides lower-cased
is_opted_out(oo, e) ==
    Lower(e) \in {Lower(oo.opt_outs[i].email) : i \in DOMAIN oo.opt_outs}

\* add_opt_out with the entry keeping the letter case it was given in
AddOptOutAsGiven(oo, e, reason, source, t) ==
    IF is_opted_out(oo, e)
    THEN [ret |-> FALSE, opt_outs |-> oo]
    ELSE [ret |-> TRUE,
          opt_outs |->
              [oo EXCEPT !.opt_outs = Append(@, [email |-> e, reason |-> reason,
                                                 timestamp |-> t, source |-> source]),
                         !.last_updated = t,
                         !.total_opt_outs = Len(oo.opt_outs) + 1]]

\* add_opt_out on day t: what it returns and self.opt_outs, which is also what
\* save_opt_outs has written, afterwards
add_opt_out(oo, e, reason, source, t) ==
    IF is_opted_out(oo, e)
    THEN [ret |-> FALSE, opt_outs |-> oo]
    ELSE [ret |-> TRUE,
          opt_outs |->
              [oo EXCEPT !.opt_outs = Append(@, [email |-> Lower(e), reason |-> reason,
                                                 timestamp |-> t, source |-> source]),
                         !.last_updated = t,
                         !.total_opt_outs = Len(oo.opt_outs) + 1]]

-----------------------------------------------------------------------------
(* Eligibility filter: the first loop of run_outreach_phase *)

\* has_recent_outreach_to_domain(domain, days) over log lg at time t
has_recent_outreach_to_domain(lg, t, domain, days) ==
    \E i \in DOMAIN lg :
        /\ lg[i].status = "sent"
        /\ lg[i].timestamp > t - days
        /\ domain = get_domain_from_email(LogGet(lg[i], "email"))

\* the same comparison with <= in place of <
CooldownInclusive(c, t) ==
    /\ c.last_contact # <<>>
    /\ t - c.last_contact[1] <= CooldownDays

\* "Skip if already contacted recently (within 30 days)"
ContactedRecently(c, t) ==
    /\ c.last_contact # <<>>
    /\ t - c.last_contact[1] < CooldownDays

\* the same comparison with > in place of >=
AttemptCapExclusive(c) == c.outreach_count > max_outreach_per_target

\* "Skip if exceeded max outreach attempts"
MaxAttemptsReached(c) == c.outreach_count >= max_outreach_per_target

\* "Skip if we've already selected a contact from this domain in this batch"
DomainAlreadySelected(domain, seen_domains) == domain \in seen_domains

\* the filter loop: indices into cs of the eligible contacts, in store order
EligibleContacts(cs, oo, lg, t) ==
    LET RECURSIVE walk(_, _)
        walk(i, elig) ==
            IF i > Len(cs) THEN elig
            ELSE LET c == cs[i]
                     seen_emails == {Lower(cs[j].email) : j \in Range(elig)}
                     seen_domains ==
                         {get_domain_from_email(cs[j].email) : j \in Range(elig)}
                     domain == get_domain_from_email(c.email)
                     skip == \/ is_test_email(c.email)
                             \/ is_opted_out(oo, c.email)
                             \/ Lower(c.email) \in seen_emails
                             \/ ContactedRecently(c, t)
                             \/ MaxAttemptsReached(c)
                             \/ DomainAlreadySelected(domain, seen_domains)
                             \/ has_recent_outreach_to_domain(lg, t, domain, DomainDays)
                 IN  walk(i + 1, IF skip THEN elig ELSE Append(elig, i))
    IN  walk(1, <<>>)

-----------------------------------------------------------------------------
(* Batch composer: the second half of run_outreach_phase *)

\* keys of org_contacts in insertion order
OrgOrder(cs, elig) ==
    LET RECURSIVE walk(_, _)
        walk(k, orgs) ==
            IF k > Len(elig) THEN orgs
            ELSE LET o == cs[elig[k]].organization
                 IN  walk(k + 1, IF o \in Range(orgs) THEN orgs ELSE Append(orgs, o))
    IN  walk(1, <<>>)

Min(a, b) == IF a < b THEN a ELSE b

\* random.sample(avail, k): every ordered choice of k distinct members
Samples(avail, k) ==
    {s \in [1..k -> Range(avail)] : \A a, b \in 1..k : a # b => s[a] # s[b]}

\* the loop over selected_contacts; failed holds those whose rendering raises
AddSelected(cs, acc, selected, failed) ==
    LET RECURSIVE walk(_, _)
        walk(k, out) ==
            IF k > Len(selected) THEN out
            ELSE LET i == selected[k]
                     batch_emails == {Lower(cs[j].email) : j \in Range(out)}
                     batch_domains ==
                         {get_domain_from_email(cs[j].email) : j \in Range(out)}
                     dup == \/ Lower(cs[i].email) \in batch_emails
                            \/ get_domain_from_email(cs[i].email) \in batch_domains
                 IN  walk(k + 1, IF dup \/ i \in failed THEN out ELSE Append(out, i))
    IN  walk(1, acc)

\* every new_pending (as indices into cs) the composer can produce from elig;
\* raising: generate_outreach_message may raise for some of the selected contacts
ComposeOutcomes(cs, elig, raising) ==
    LET orgs == OrgOrder(cs, elig)
        RECURSIVE perOrg(_, _)
        perOrg(j, acc) ==
            IF j > Len(orgs) THEN {acc}
            ELSE LET members ==
                         SelectSeq(elig, LAMBDA i : cs[i].organization = orgs[j])
                     batch_emails == {Lower(cs[x].email) : x \in Range(acc)}
                     batch_domains ==
                         {get_domain_from_email(cs[x].email) : x \in Range(acc)}
                     avail ==
                         SelectSeq(members,
                             LAMBDA i : /\ Lower(cs[i].email) \notin batch_emails
                                        /\ get_domain_from_email(cs[i].email)
                                               \notin batch_domains)
                 IN  IF avail = <<>> THEN perOrg(j + 1, acc)
                     ELSE UNION
                          { UNION
                            { UNION
                              { perOrg(j + 1, AddSelected(cs, acc, s, f))
                                : f \in IF raising THEN SUBSET Range(s) ELSE {{}} }
                              : s \in Samples(avail, Min(Len(avail), r)) }
                            : r \in min_outreach_per_target..max_outreach_per_target }
    IN  perOrg(1, <<>>)

\* PendingOutreach(contact, message, timestamp=now): approved and sent default False.
\* ref is the position in self.contacts of the Contact object the entry holds
\* (0: an object of its own, as load_pending_outreach builds).
NewPending(cs, i, id, t) ==
    [id |-> id, ref |-> i, contact |-> cs[i], message |-> "generated",
     timestamp |-> t, approved |-> FALSE, sent |-> FALSE]

\* save_pending_outreach: asdict(pending.contact) and the entry's fields
SavedPending(q) == [k \in DOMAIN q |-> [q[k] EXCEPT !.ref = 0]]


-----------------------------------------------------------------------------
(* Dispatcher: send_outreach_message *)

\* the Contact updates of a successful send
Touched(c, t) ==
    [c EXCEPT !.contact_date = <<t>>, !.outreach_count = @ + 1, !.last_contact = <<t>>]

\* the outreach_log.append(...) of send_outreach_message
LogEntry(c, t, status) ==
    IF status = "failed"
    THEN [timestamp |-> t, contact_email |-> c.email, organization |-> c.organization,
          status |-> status, error |-> "str(e)"]
    ELSE [timestamp |-> t, contact_email |-> c.email, organization |-> c.organization,
          status |-> status]

\* "Check if contact has opted out": the send is refused before any transport
Refused(oo, p) == is_opted_out(oo, p.contact.email)

\* return value of send_outreach_message(p.contact, p.message), transport outcome ok
SendResult(oo, p, ok) == ~Refused(oo, p) /\ ok

\* self.contacts when the Contact updates come before the transport call
ContactsAfterAttempt(cs, oo, p, ok, t) ==
    IF ~Refused(oo, p) /\ p.ref # 0
    THEN [cs EXCEPT ![p.ref] = Touched(@, t)]
    ELSE cs

\* self.contacts after the call: the Contact object of p is in it only when
\* p was composed by this process (p.ref # 0)
ContactsAfterSend(cs, oo, p, ok, t) ==
    IF SendResult(oo, p, ok) /\ p.ref # 0
    THEN [cs EXCEPT ![p.ref] = Touched(@, t)]
    ELSE cs

\* self.pending_outreach after the call: entry i and every entry holding the
\* same Contact object see the update
PendingAfterSend(q, oo, i, ok, t) ==
    IF ~SendResult(oo, q[i], ok) THEN q
    ELSE [j \in DOMAIN q |->
            IF j = i \/ (q[i].ref # 0 /\ q[j].ref = q[i].ref)
            THEN [q[j] EXCEPT !.contact = Touched(@, t)]
            ELSE q[j]]

\* self.outreach_log when only a successful send is logged
LogSuccessOnly(lg, oo, p, ok, t) ==
    IF ~SendResult(oo, p, ok) THEN lg
    ELSE Append(lg, LogEntry(p.contact, t, "sent"))

\* self.outreach_log after the call
LogAfterSend(lg, oo, p, ok, t) ==
    IF Refused(oo, p) THEN lg
    ELSE Append(lg, LogEntry(p.contact, t, IF ok THEN "sent" ELSE "failed"))

\* outreach_count of the store records with this email string
StoreCount(cs, e) == {cs[k].outreach_count : k \in {j \in DOMAIN cs : cs[j].email = e}}

\* history: one transport attempt for entry p, made with store cs in memory
Attempt(p, ok, dry, cs, t) ==
    [id |-> p.id, email |-> p.contact.email, ok |-> ok, wasSent |-> p.sent,
     dry |-> dry, storeCount |-> StoreCount(cs, p.contact.email), at |-> t]

\* pending.sent = True alone
MarkedSentOnly(q, i) == [q EXCEPT ![i].sent = TRUE]

\* pending.sent = True; pending.approved = True
Marked(q, i) == [q EXCEPT ![i].sent = TRUE, ![i].approved = TRUE]

\* what a running process holds: self.contacts, self.pending_outreach,
\* self.outreach_log, and the history of its transport attempts
Memory(cs, q, lg, att) == [contacts |-> cs, pending |-> q, log |-> lg, attempts |-> att]

\* one call send_outreach_message(pending.contact, message) from a session loop on
\* entry i of m.pending, and what the loop does when it returns True:
\* "mark" (send_batch_messages, individual_review_session) or
\* "remove" (send_all_pending: self.pending_outreach.remove(pending))
SendIter(m, oo, i, ok, dry, t, onSuccess) ==
    LET p == m.pending[i]
        q == PendingAfterSend(m.pending, oo, i, ok, t)
    IN  Memory(ContactsAfterSend(m.contacts, oo, p, ok, t),
               IF ~SendResult(oo, p, ok) THEN q
               ELSE IF onSuccess = "mark" THEN Marked(q, i) ELSE RemoveAt(q, i),
               LogAfterSend(m.log, oo, p, ok, t),
               IF Refused(oo, p) THEN m.attempts
               ELSE Append(m.attempts, Attempt(p, ok, dry, m.contacts, t)))

Ids(q) == [k \in DOMAIN q |-> q[k].id]

\* position in q of the entry with identity id
IdxOf(q, id) == CHOOSE k \in DOMAIN q : q[k].id = id

\* one iteration of the loop of send_batch_messages: "if pending.sent: continue"
BatchIter(m, oo, id, ok, dry, t) ==
    IF m.pending[IdxOf(m.pending, id)].sent THEN m
    ELSE SendIter(m, oo, IdxOf(m.pending, id), ok, dry, t, "mark")

\* one iteration of the loop of send_all_pending: no look at pending.sent
SendAllIter(m, oo, id, ok, dry, t) ==
    SendIter(m, oo, IdxOf(m.pending, id), ok, dry, t, "remove")

-----------------------------------------------------------------------------
(* Processes *)

NoSess == [sel |-> <<>>, k |-> 0, dry |-> FALSE, sent_count |-> 0, failed_count |-> 0,
           quit |-> FALSE, delays |-> <<>>]

\* self.rate_limit_delay = (30, 60): seconds between messages
rate_limit_delay == <<30, 60>>

\* the range of random.uniform(10, 30) in individual_review_session
ReviewDelay == <<10, 30>>

\* (history) the session after one loop iteration that took the attempts from
\* before to after and then called time.sleep for a delay from each range of
\* slept: delays[n] is the set of ranges slept for since the n-th attempt
SleptAfter(s, before, after, slept) ==
    IF Len(after) > Len(before) THEN [s EXCEPT !.delays = Append(@, slept)]
    ELSE IF s.delays = <<>> THEN s
    ELSE [s EXCEPT !.delays[Len(s.delays)] = @ \cup slept]

\* the counters of a dispatch loop after a call of send_outreach_message that
\* returned result
Tally(s, result) ==
    IF result THEN [s EXCEPT !.sent_count = @ + 1]
    ELSE [s EXCEPT !.failed_count = @ + 1]

NoBatch == [ran |-> FALSE, at |-> 0, store |-> <<>>, optouts |-> load_opt_outs(0), log |-> <<>>,
            eligible |-> <<>>, staged |-> <<>>, before |-> <<>>]

FailedIn(lg) == Cardinality({k \in DOMAIN lg : lg[k].status = "failed"})

\* transport outcomes the model lets happen for the next attempt
Outcomes == IF FailedIn(outreach_log) < MaxFail THEN {TRUE, FALSE} ELSE {TRUE}

Mem == Memory(contacts, pending_outreach, outreach_log, attempts)

SetMem(m) ==
    /\ contacts' = m.contacts
    /\ pending_outreach' = m.pending
    /\ outreach_log' = m.log
    /\ attempts' = m.attempts

\* the process ends: its memory is gone
Exit ==
    /\ pc' = "idle"
    /\ sess' = NoSess
    /\ SetMem(Memory(<<>>, <<>>, <<>>, <<>>))

\* send_all_pending when entered with queue q: "No pending messages to send"
\* returns at once, else the loop walks a copy of the list
EnterSendAll(q, dry) ==
    IF q = <<>>
    THEN Exit
    ELSE /\ pc' = "send_all"
         /\ sess' = [NoSess EXCEPT !.sel = Ids(q), !.k = 1, !.dry = dry]
         /\ SetMem(Memory(dContacts, q, dLog, <<>>))

\* interactive_outreach_session(self.pending_outreach): returns at once when empty
EnterInteractive(q, dry) ==
    IF q = <<>>
    THEN Exit
    ELSE /\ pc' = "choose_mode"
         /\ sess' = [NoSess EXCEPT !.dry = dry]
         /\ SetMem(Memory(dContacts, q, dLog, <<>>))

OptOutInputs == {Email("a", "acme", FALSE)}

\* no add_opt_out call yet
NoCalls == [added |-> {}, last |-> <<>>, ret |-> <<>>]

\* main, --mode opt-out --email e --reason reason
OptOut(e, reason) ==
    /\ pc = "idle"
    /\ LET r == add_opt_out(opt_outs, e, reason, "manual", now)
       IN  /\ opt_outs' = r.opt_outs
           /\ calls' = [added |-> calls.added \cup {e}, last |-> <<e>>, ret |-> <<r.ret>>]
    /\ batch' = NoBatch
    /\ UNCHANGED <<now, dContacts, dPending, dLog, contacts, pending_outreach,
                   outreach_log, pc, sess, nextId, attempts>>
    /\ UNCHANGED discVars

CmdOptOut == \E e \in OptOutInputs : OptOut(e, "")

\* the queue when new_pending is assigned to self.pending_outreach
ReplacedQueue(new) ==
    [k \in 1..Len(new) |-> NewPending(dContacts, new[k], nextId + k - 1, now)]

\* run_outreach_phase up to save_pending_outreach, on the stores as loaded by
\* StartupOutreachBot(): the queue it leaves in memory
ComposedQueue(new) ==
    dPending \o [k \in 1..Len(new) |-> NewPending(dContacts, new[k], nextId + k - 1, now)]

\* history of the run_outreach_phase call that staged new
BatchRecord(new) ==
    [ran |-> TRUE, at |-> now, store |-> dContacts, optouts |-> opt_outs, log |-> dLog,
     eligible |-> EligibleContacts(dContacts, opt_outs, dLog, now),
     staged |-> new, before |-> dPending]

\* main, --mode outreach with its four flags
OutreachCmd(raising, dry, nonint, auto, bm) ==
    /\ pc = "idle"
    /\ \E new \in ComposeOutcomes(dContacts,
                      EligibleContacts(dContacts, opt_outs, dLog, now), raising) :
          LET q == ComposedQueue(new)
              interactive == IF auto \/ nonint THEN FALSE
                             ELSE IF bm THEN TRUE ELSE ~dry
          IN  /\ nextId + Len(new) - 1 <= MaxEntries
              /\ nextId' = nextId + Len(new)
              /\ dPending' = SavedPending(q)
              /\ batch' = BatchRecord(new)
              /\ IF auto THEN EnterSendAll(q, dry)
                 ELSE IF interactive THEN EnterInteractive(q, dry)
                 ELSE Exit
    /\ UNCHANGED <<now, opt_outs, calls, dContacts, dLog>>
    /\ UNCHANGED discVars

CmdOutreach == \E dry, nonint, auto, bm \in BOOLEAN : OutreachCmd(FALSE, dry, nonint, auto, bm)

\* main, --mode review
CmdReview ==
    /\ pc = "idle"
    /\ EnterInteractive(dPending, FALSE)
    /\ batch' = NoBatch
    /\ UNCHANGED <<now, opt_outs, calls, dContacts, dPending, dLog, nextId>>
    /\ UNCHANGED discVars

\* main, --mode send
CmdSend ==
    /\ pc = "idle"
    /\ EnterSendAll(dPending, FALSE)
    /\ batch' = NoBatch
    /\ UNCHANGED <<now, opt_outs, calls, dContacts, dPending, dLog, nextId>>
    /\ UNCHANGED discVars

\* selective_send_session: the typed numbers n give indices n - 1, kept when in range
SelectedMessages(q, typed) ==
    LET kept == SelectSeq(typed, LAMBDA n : 0 <= n - 1 /\ n - 1 < Len(q))
    IN  [k \in DOMAIN kept |-> q[kept[k]].id]

TypedLists(q) == UNION {[1..n -> 0..(Len(q) + 1)] : n \in 1..MaxSel}

\* interactive_outreach_session and the menus below it, up to the session chosen
ChooseMode ==
    /\ pc = "choose_mode"
    /\ \/ /\ pc' = "review"
          /\ sess' = [sess EXCEPT !.sel = Ids(pending_outreach), !.k = 1]
          /\ UNCHANGED <<contacts, pending_outreach, outreach_log, attempts>>
       \/ /\ pc' = "batch"
          /\ sess' = [sess EXCEPT !.sel = Ids(pending_outreach), !.k = 1]
          /\ UNCHANGED <<contacts, pending_outreach, outreach_log, attempts>>
       \/ \E typed \in TypedLists(pending_outreach) :
            LET sel == SelectedMessages(pending_outreach, typed)
            IN  IF sel = <<>> THEN Exit
                ELSE /\ pc' = "batch"
                     /\ sess' = [sess EXCEPT !.sel = sel, !.k = 1]
                     /\ UNCHANGED <<contacts, pending_outreach, outreach_log, attempts>>
       \/ Exit
    /\ batch' = NoBatch
    /\ UNCHANGED <<now, opt_outs, calls, dContacts, dPending, dLog, nextId>>
    /\ UNCHANGED discVars

\* one iteration of the loop of send_batch_messages
BatchStep ==
    /\ pc = "batch"
    /\ sess.k <= Len(sess.sel)
    /\ \E ok \in Outcomes :
         LET p == pending_outreach[IdxOf(pending_outreach, sess.sel[sess.k])]
         IN  /\ SetMem(BatchIter(Mem, opt_outs, sess.sel[sess.k], ok, sess.dry, now))
             /\ sess' = [(IF p.sent THEN sess
                           ELSE SleptAfter(Tally(sess, SendResult(opt_outs, p, ok)),
                                           attempts, attempts', {rate_limit_delay}))
                            EXCEPT !.k = @ + 1]
    /\ batch' = NoBatch
    /\ UNCHANGED <<now, opt_outs, calls, dContacts, dPending, dLog, pc, nextId>>
    /\ UNCHANGED discVars

\* "Save progress": save_pending_outreach, save_contacts, save_outreach_log
SaveProgress(m) ==
    /\ dPending' = SavedPending(m.pending)
    /\ dContacts' = m.contacts
    /\ dLog' = m.log

\* send_batch_messages after its loop
BatchFinish ==
    /\ pc = "batch"
    /\ sess.k > Len(sess.sel)
    /\ SaveProgress(Mem)
    /\ Exit
    /\ batch' = NoBatch
    /\ UNCHANGED <<now, opt_outs, calls, nextId>>
    /\ UNCHANGED discVars

\* the entry the review loop is at
CurrentIdx == IdxOf(pending_outreach, sess.sel[sess.k])

\* edit_message_cli: the entry's message is replaced by what the operator typed
Edited(m, i) == [m EXCEPT !.pending[i].message = "edited"]

\* one iteration of the loop of individual_review_session for an entry neither
\* sent nor approved; answer is what preview_message_cli returns, answer2 what it
\* returns when asked again after an edit. The result: the memory, whether
\* the loop breaks, whether a send returned True, and (history) whether the
\* operator answered quit.
ReviewIter(m, oo, i, answer, answer2, ok, dry, t) ==
    IF answer = "send"
    THEN [mem |-> SendIter(m, oo, i, ok, dry, t, "mark"), brk |-> FALSE,
          sent |-> SendResult(oo, m.pending[i], ok), quit |-> FALSE]
    ELSE IF answer = "edit"
    THEN IF answer2 = "send"
         THEN [mem |-> SendIter(Edited(m, i), oo, i, ok, dry, t, "mark"), brk |-> FALSE,
               sent |-> SendResult(oo, m.pending[i], ok), quit |-> FALSE]
         ELSE [mem |-> Edited(m, i), brk |-> FALSE, sent |-> FALSE,
               quit |-> answer2 = "quit"]
    ELSE IF answer = "skip"
    THEN [mem |-> m, brk |-> FALSE, sent |-> FALSE, quit |-> FALSE]
    ELSE [mem |-> m, brk |-> TRUE, sent |-> FALSE, quit |-> TRUE]

\* "Add delay between sends" at the end of an iteration of the review loop:
\* if decision == "send" and sent_count > 0, where decision is the last answer
\* of the operator and count the value of sent_count before the iteration
ReviewSleep(answer, answer2, sent, count) ==
    IF /\ answer = "send" \/ (answer = "edit" /\ answer2 = "send")
       /\ count + (IF sent THEN 1 ELSE 0) > 0
    THEN {ReviewDelay} ELSE {}

\* one iteration of the loop of individual_review_session, the operator
\* answering from answers
ReviewLoop(answers) ==
    /\ pc = "review"
    /\ sess.k <= Len(sess.sel)
    /\ IF pending_outreach[CurrentIdx].sent \/ pending_outreach[CurrentIdx].approved
       THEN /\ sess' = [sess EXCEPT !.k = @ + 1]
            /\ UNCHANGED <<contacts, pending_outreach, outreach_log, attempts>>
       ELSE \E answer \in answers, answer2 \in answers, ok \in Outcomes :
              LET r == ReviewIter(Mem, opt_outs, CurrentIdx, answer, answer2, ok,
                                  sess.dry, now)
              IN  /\ SetMem(r.mem)
                  /\ sess' = [SleptAfter(sess, attempts, attempts',
                                          ReviewSleep(answer, answer2, r.sent, sess.sent_count))
                               EXCEPT
                                !.k = IF r.brk THEN Len(sess.sel) + 1 ELSE @ + 1,
                                !.sent_count = IF r.sent THEN @ + 1 ELSE @,
                                !.quit = @ \/ r.quit]
    /\ batch' = NoBatch
    /\ UNCHANGED <<now, opt_outs, calls, dContacts, dPending, dLog, pc, nextId>>
    /\ UNCHANGED discVars

ReviewStep == ReviewLoop({"send", "skip", "quit"})

\* individual_review_session after its loop
ReviewFinish ==
    /\ pc = "review"
    /\ sess.k > Len(sess.sel)
    /\ SaveProgress(Mem)
    /\ Exit
    /\ batch' = NoBatch
    /\ UNCHANGED <<now, opt_outs, calls, nextId>>
    /\ UNCHANGED discVars

\* one iteration of the loop of send_all_pending over the copied list
SendAllStep ==
    /\ pc = "send_all"
    /\ sess.k <= Len(sess.sel)
    /\ \E ok \in Outcomes :
         LET p == pending_outreach[IdxOf(pending_outreach, sess.sel[sess.k])]
         IN  /\ SetMem(SendAllIter(Mem, opt_outs, sess.sel[sess.k], ok, sess.dry, now))
             /\ sess' = [SleptAfter(Tally(sess, SendResult(opt_outs, p, ok)),
                                    attempts, attempts', {rate_limit_delay})
                            EXCEPT !.k = @ + 1]
    /\ batch' = NoBatch
    /\ UNCHANGED <<now, opt_outs, calls, dContacts, dPending, dLog, pc, nextId>>
    /\ UNCHANGED discVars

\* send_all_pending after its loop: "Save updated pending list"
SendAllFinish ==
    /\ pc = "send_all"
    /\ sess.k > Len(sess.sel)
    /\ dPending' = SavedPending(pending_outreach)
    /\ Exit
    /\ batch' = NoBatch
    /\ UNCHANGED <<now, opt_outs, calls, dContacts, dLog, nextId>>
    /\ UNCHANGED discVars

\* KeyboardInterrupt during a session: main logs it and the process ends
Interrupt ==
    /\ pc \in {"choose_mode", "review", "batch", "send_all"}
    /\ Exit
    /\ batch' = NoBatch
    /\ UNCHANGED <<now, opt_outs, calls, dContacts, dPending, dLog, nextId>>
    /\ UNCHANGED discVars

-----------------------------------------------------------------------------
(* Spec: the engine's processes, one after another, from a two-contact store. *)
(* The clock stands still and the renderer does not raise; SpecElig varies    *)
(* both.                                                                      *)

InitContacts ==
    << NewContact(Email("a", "acme", TRUE), "Acme"),
       NewContact(Email("c", "corp", FALSE), "Acme") >>

Init ==
    /\ now = 0
    /\ opt_outs = load_opt_outs(0)
    /\ calls = NoCalls
    /\ dContacts = InitContacts
    /\ dPending = <<>>
    /\ dLog = <<>>
    /\ contacts = <<>>
    /\ pending_outreach = <<>>
    /\ outreach_log = <<>>
    /\ pc = "idle"
    /\ sess = NoSess
    /\ nextId = 1
    /\ attempts = <<>>
    /\ batch = NoBatch
    /\ targets = <<>>
    /\ dTargets = <<>>
    /\ scraped = <<>>
    /\ lastPass = <<>>

Next ==
    \/ CmdOptOut
    \/ CmdOutreach
    \/ CmdReview
    \/ CmdSend
    \/ ChooseMode
    \/ BatchStep
    \/ BatchFinish
    \/ ReviewStep
    \/ ReviewFinish
    \/ SendAllStep
    \/ SendAllFinish
    \/ Interrupt

Spec == Init /\ [][Next]_vars

-----------------------------------------------------------------------------
(* Properties stated under Spec *)

\* the entry of the persisted queue with this identity is marked sent
PersistedSent(id) == \E k \in DOMAIN dPending : dPending[k].id = id /\ dPending[k].sent

\* C1: no resend: no dispatch session makes a transport attempt for an entry
\* that is marked sent=true in the persisted queue.
C1_NoResend == \A k \in DOMAIN attempts : ~PersistedSent(attempts[k].id)

\* lower-cased emails of an opt-out registry
OptedOutLower(oo) ==
    {[oo.opt_outs[k].email EXCEPT !.uc = FALSE] : k \in DOMAIN oo.opt_outs}

\* C2: opt-out supremacy: the eligibility filter selects no contact whose
\* lower-cased email is in the OptOut registry, and no transport attempt is made
\* for such an email, also for an entry staged before the opt-out was added.
C2_OptOutSupremacy ==
    /\ \A k \in DOMAIN attempts :
          [attempts[k].email EXCEPT !.uc = FALSE] \notin OptedOutLower(opt_outs)
    /\ batch.ran =>
          \A k \in DOMAIN batch.eligible :
             [batch.store[batch.eligible[k]].email EXCEPT !.uc = FALSE]
                 \notin OptedOutLower(batch.optouts)

\* C2 witness: a dispatch loop has passed a Staged entry whose contact opted out
\* after it was staged, and made no attempt for it.
C2_Witness ==
    /\ pc \in {"batch", "send_all", "review"}
    /\ opt_outs.opt_outs # <<>>
    /\ \E k \in 1..(sess.k - 1) : k <= Len(sess.sel) /\
         \E j \in DOMAIN pending_outreach :
            /\ pending_outreach[j].id = sess.sel[k]
            /\ ~pending_outreach[j].sent
            /\ [pending_outreach[j].contact.email EXCEPT !.uc = FALSE]
                   \in OptedOutLower(opt_outs)
            /\ \A a \in DOMAIN attempts : attempts[a].id # sess.sel[k]

\* a dispatch session ends and saves
SessionEnds == BatchFinish \/ ReviewFinish \/ SendAllFinish

\* C3: after a successful send of a staged entry for contact c, in any dispatch
\* mode, the persisted Contact store record of c has outreachCount one higher
\* than before the send and lastContact set to the send time.
C3_StoreRecordsSend ==
    [][SessionEnds =>
         \A k \in DOMAIN attempts :
            (/\ attempts[k].ok
             /\ \A l \in DOMAIN attempts :
                   l > k => attempts[l].email # attempts[k].email \/ ~attempts[l].ok)
            => \E j \in DOMAIN dContacts' :
                  /\ dContacts'[j].email = attempts[k].email
                  /\ {dContacts'[j].outreach_count} =
                         {n + 1 : n \in attempts[k].storeCount}
                  /\ dContacts'[j].last_contact = <<attempts[k].at>>]_vars

\* C9: a run of the outreach command with --dry-run makes no transport attempt,
\* whatever the other flags.
C9_DryRunNeverDispatches == \A k \in DOMAIN attempts : ~attempts[k].dry

\* C10: no operation removes an entry from the persisted queue: every entry in
\* it before a step is in it after the step.
C10_NeverRemoved ==
    [][\A k \in DOMAIN dPending :
          \E j \in DOMAIN dPending' : dPending'[j].id = dPending[k].id]_vars

-----------------------------------------------------------------------------
(* SpecElig: run_outreach_phase on stores as an earlier run can have left    *)
(* them, at times on both sides of the 7-day and 30-day limits, with a       *)
(* renderer that may raise. Each step is one whole process.                  *)

\* days since the timestamps 0 and 1 used in EligStores and EligLogs
NowInputs == {DomainDays - 1, DomainDays, CooldownDays - 1, CooldownDays}

EligContact(e, org, count, last) ==
    [NewContact(e, org) EXCEPT !.outreach_count = count, !.last_contact = last,
                               !.contact_date = last]

\* outreach_count and last_contact of a record: never sent to, or sent to n
\* times, the last time on day d
Histories(ns, ds) ==
    {[n |-> 0, last |-> <<>>]} \cup {[n |-> n, last |-> <<d>>] : n \in ns, d \in ds}

\* contacts.json: two addresses of one domain in different organizations, one
\* more of another domain, one test address
EligStores ==
    { << EligContact(Email("a", "acme", TRUE), "Acme", h1.n, h1.last),
         EligContact(Email("b", "acme", FALSE), "Beta", 0, <<>>),
         EligContact(Email("c", "corp", FALSE), "Acme", h3.n, h3.last),
         EligContact(Email("t", "example", FALSE), "Test", 0, <<>>) >> :
      h1 \in Histories({max_outreach_per_target - 1}, {0}),
      h3 \in Histories({max_outreach_per_target}, {0}) \cup Histories({1}, {1}) }

\* outreach_log.json: nothing, or one entry written by send_outreach_message
EligLogs ==
    {<<>>} \cup
    { <<LogEntry(NewContact(Email("b", "acme", FALSE), "Beta"), 0, st)>> :
      st \in {"sent", "failed"} }

EligOptOuts ==
    {load_opt_outs(0),
     add_opt_out(load_opt_outs(0), Email("a", "acme", FALSE), "", "manual", 0).opt_outs}

InitElig ==
    /\ now \in NowInputs
    /\ opt_outs \in EligOptOuts
    /\ calls = [NoCalls EXCEPT !.added = {opt_outs.opt_outs[k].email : k \in DOMAIN opt_outs.opt_outs}]
    /\ dContacts \in EligStores
    /\ dPending = <<>>
    /\ dLog \in EligLogs
    /\ contacts = <<>>
    /\ pending_outreach = <<>>
    /\ outreach_log = <<>>
    /\ pc = "idle"
    /\ sess = NoSess
    /\ nextId = 1
    /\ attempts = <<>>
    /\ batch = NoBatch
    /\ targets = <<>>
    /\ dTargets = <<>>
    /\ scraped = <<>>
    /\ lastPass = <<>>

\* main, --mode outreach --non-interactive [--dry-run]: compose, save, return
EligCompose == \E dry \in BOOLEAN : OutreachCmd(TRUE, dry, TRUE, FALSE, FALSE)

\* the loop of send_batch_messages over sel, transport outcome oks[k] for sel[k]
BatchRun(m, oo, sel, oks, dry, t) ==
    LET RECURSIVE walk(_, _)
        walk(k, mm) ==
            IF k > Len(sel) THEN mm
            ELSE walk(k + 1,
                      BatchIter(mm, oo, sel[k],
                                oks[k] \/ FailedIn(mm.log) >= MaxFail, dry, t))
    IN  walk(1, m)

\* main, --mode outreach, the operator answers "3" and "y": run_outreach_phase,
\* then send_batch_messages over the whole queue and its three saves
OutreachBatchProcess ==
    /\ pc = "idle"
    /\ \E new \in ComposeOutcomes(dContacts,
                      EligibleContacts(dContacts, opt_outs, dLog, now), TRUE) :
          LET q == ComposedQueue(new)
          IN  /\ q # <<>>
              /\ nextId + Len(new) - 1 <= MaxEntries
              /\ nextId' = nextId + Len(new)
              /\ batch' = BatchRecord(new)
              /\ \E oks \in [DOMAIN q -> BOOLEAN] :
                    LET m == BatchRun(Memory(dContacts, q, dLog, <<>>), opt_outs,
                                      Ids(q), oks, FALSE, now)
                    IN  /\ SaveProgress(m)
                        /\ attempts' = m.attempts
    /\ UNCHANGED <<now, opt_outs, calls, contacts, pending_outreach, outreach_log, pc, sess>>
    /\ UNCHANGED discVars

NextElig ==
    \/ EligCompose
    \/ OutreachBatchProcess

SpecElig == InitElig /\ [][NextElig]_vars

-----------------------------------------------------------------------------
(* Properties stated under SpecElig *)

\* the contact at position i of the store the recorded run_outreach_phase read
BatchContact(i) == batch.store[i]

\* the log the recorded run read holds a sent entry to this domain, less than
\* DomainDays old at the time of the run
DomainSentRecently(dm) ==
    \E l \in DOMAIN batch.log :
        /\ batch.log[l].status = "sent"
        /\ batch.at - batch.log[l].timestamp < DomainDays
        /\ batch.log[l].contact_email.dm = dm

\* C4: the eligibility filter never selects a contact whose email domain is the
\* recipient domain of a log entry with status sent and a timestamp within the
\* last 7 days, the log entries being those send_outreach_message writes.
C4_RecentDomainThrottle ==
    batch.ran =>
        \A k \in DOMAIN batch.eligible :
            ~DomainSentRecently(BatchContact(batch.eligible[k]).email.dm)

\* C6: among the entries one run_outreach_phase composition pass creates, no two
\* contact emails have the same lower-cased domain and no two have the same
\* lower-cased email, whatever the store and the per-organization samples.
C6_OnePerDomainAndEmail ==
    batch.ran =>
        \A k, l \in DOMAIN batch.staged :
            k # l =>
               LET e1 == BatchContact(batch.staged[k]).email
                   e2 == BatchContact(batch.staged[l]).email
               IN  /\ e1.dm # e2.dm
                   /\ [e1 EXCEPT !.uc = FALSE] # [e2 EXCEPT !.uc = FALSE]

\* the contact at i passes every check of the filter that looks at it alone
AdmissibleAlone(i) ==
    LET c == BatchContact(i)
    IN  /\ c.email.dm \notin test_domains
        /\ [c.email EXCEPT !.uc = FALSE] \notin OptedOutLower(batch.optouts)
        /\ c.outreach_count < max_outreach_per_target
        /\ c.last_contact = <<>> \/ batch.at - c.last_contact[1] >= CooldownDays

\* a pass staged two entries and left out an admissible contact that shares its
\* domain with one of them
C6_Witness ==
    /\ batch.ran
    /\ Len(batch.staged) = 2
    /\ \E i \in DOMAIN batch.store :
          /\ \A k \in DOMAIN batch.staged : batch.staged[k] # i
          /\ AdmissibleAlone(i)
          /\ \E k \in DOMAIN batch.staged :
                BatchContact(batch.staged[k]).email.dm = BatchContact(i).email.dm

\* last_contact is null or at least CooldownDays before the recorded run
CooledDown(i) ==
    \/ BatchContact(i).last_contact = <<>>
    \/ batch.at - BatchContact(i).last_contact[1] >= CooldownDays

\* a ground other than the cooldown on which the filter may leave out contact i
OtherGround(i) ==
    LET c == BatchContact(i)
    IN  \/ c.email.dm \in test_domains
        \/ [c.email EXCEPT !.uc = FALSE] \in OptedOutLower(batch.optouts)
        \/ c.outreach_count >= max_outreach_per_target
        \/ \E k \in DOMAIN batch.eligible :
              /\ batch.eligible[k] < i
              /\ BatchContact(batch.eligible[k]).email.dm = c.email.dm
        \/ DomainSentRecently(c.email.dm)

IsEligible(i) == \E k \in DOMAIN batch.eligible : batch.eligible[k] = i

\* C7: the eligibility filter never returns a contact whose last_contact is set
\* and less than 30 days before the call, and it leaves out no contact on
\* cooldown grounds whose last_contact is null or at least 30 days old.
C7_Cooldown ==
    batch.ran =>
        /\ \A i \in DOMAIN batch.store : IsEligible(i) => CooledDown(i)
        /\ \A i \in DOMAIN batch.store :
              (CooledDown(i) /\ ~IsEligible(i)) => OtherGround(i)

\* one call returned a contact last contacted exactly CooldownDays before it and
\* left out, on the cooldown alone, one contacted a day later
C7_Witness ==
    /\ batch.ran
    /\ \E i \in DOMAIN batch.store :
          /\ IsEligible(i)
          /\ BatchContact(i).last_contact # <<>>
          /\ batch.at - BatchContact(i).last_contact[1] = CooldownDays
    /\ \E j \in DOMAIN batch.store :
          /\ ~IsEligible(j)
          /\ ~CooledDown(j)
          /\ ~OtherGround(j)

\* C8: the eligibility filter never returns a contact whose outreach_count is at
\* least the maximum of 4, and since only successful sends increment the count,
\* failed attempts leave the stored count, and so this rule's verdict, unchanged.
C8_AttemptCap ==
    /\ batch.ran =>
          \A i \in DOMAIN batch.store :
              IsEligible(i) => BatchContact(i).outreach_count < max_outreach_per_target
    /\ \A k \in DOMAIN attempts :
          (\A l \in DOMAIN attempts :
               attempts[l].email = attempts[k].email => ~attempts[l].ok)
          => StoreCount(dContacts, attempts[k].email) = attempts[k].storeCount

\* one process left out a contact at the cap on that ground alone, and its send
\* to a contact one below the cap failed
C8_Witness ==
    /\ batch.ran
    /\ \E i \in DOMAIN batch.store :
          /\ ~IsEligible(i)
          /\ BatchContact(i).outreach_count = max_outreach_per_target
          /\ CooledDown(i)
          /\ BatchContact(i).email.dm \notin test_domains
          /\ [BatchContact(i).email EXCEPT !.uc = FALSE] \notin OptedOutLower(batch.optouts)
          /\ ~DomainSentRecently(BatchContact(i).email.dm)
    /\ \E k \in DOMAIN attempts :
          /\ ~attempts[k].ok
          /\ attempts[k].storeCount = {max_outreach_per_target - 1}
          /\ StoreCount(dContacts, attempts[k].email) = {max_outreach_per_target - 1}

-----------------------------------------------------------------------------
(* Discovery: run_discovery_phase and the scrape-and-merge of add_new_targets *)

\* an OutreachTarget as its constructor leaves it: never scraped
NamedTarget(n, w) == [name |-> n, website |-> w, last_scraped |-> <<>>, contacts_found |-> 0]

NewTarget(w) == NamedTarget(w, w)

\* default_targets of initialize_default_targets (the code lists eighteen)
DefaultTargets == <<NewTarget("techcrunch")>>

\* load_targets, then "Initialize with default targets" of __init__: what
\* self.targets and targets.json are once the bot is constructed
ConstructedTargets(dT) == IF dT = <<>> THEN DefaultTargets ELSE dT

Websites(ts) == {ts[k].website : k \in DOMAIN ts}

\* sample_discoveries of search_for_targets
SampleDiscoveries == <<"thenextweb", "startupstash">>

\* what the queries of discover_new_targets collect: per query a prefix of
\* sample_discoveries of length randint(0, 2), concatenated
NewTargetLists ==
    LET RECURSIVE collect(_)
        collect(n) ==
            IF n = 0 THEN {<<>>}
            ELSE {l \o SubSeq(SampleDiscoveries, 1, k) :
                     l \in collect(n - 1), k \in 0..Len(SampleDiscoveries)}
    IN  collect(MaxQueries)

\* "Add unique new targets": not among the websites already stored
UniqueTargets(ts, new) ==
    LET fresh == SelectSeq(new, LAMBDA w : w \notin Websites(ts))
    IN  [k \in DOMAIN fresh |-> NewTarget(fresh[k])]

\* the addresses a page can show, in the page's letter case
RawEmails == {Email("a", "acme", TRUE), Email("a", "acme", FALSE),
              Email("t", "example", FALSE)}

\* emails_found of one page, in the order the loop walks the set
PageInputs ==
    UNION {{p \in [1..n -> RawEmails] : \A i, j \in 1..n : i # j => p[i] # p[j]} :
           n \in 0..2}

\* what requests.get gives for one URL: the status code and the addresses in
\* the body; 404 stands for every answer other than 200 and for a
\* RequestException
Responses == [status_code : {200, 404}, emails : PageInputs]

\* the answers of the contact URLs of one target
SiteInputs == [1..MaxPages -> Responses]

\* a scrape failure on a target: none of its URLs answered with status 200
ScrapeFailed(pages) == \A u \in DOMAIN pages : pages[u].status_code # 200

\* extract_contacts_from_page: emails lower-cased, test addresses dropped, one
\* Contact for each member of emails_found
extract_contacts_from_page(page, target) ==
    LET lowered == [k \in DOMAIN page |-> Lower(page[k])]
        kept == SelectSeq(lowered, LAMBDA e : ~is_test_email(e))
    IN  [k \in DOMAIN kept |-> NewContact(kept[k], target.website)]

\* a scrape that parses every answer, whatever its status code
ScrapeAnyStatus(pages, target) ==
    LET RECURSIVE addPage(_, _, _)
        addPage(pc_, k, acc) ==
            IF k > Len(pc_) THEN acc
            ELSE addPage(pc_, k + 1,
                     IF ~is_test_email(pc_[k].email)
                        /\ pc_[k].email \notin {acc[j].email : j \in DOMAIN acc}
                     THEN Append(acc, pc_[k]) ELSE acc)
        RECURSIVE walk(_, _)
        walk(u, acc) ==
            IF u > Len(pages) THEN acc
            ELSE LET got == addPage(extract_contacts_from_page(pages[u].emails, target),
                                    1, acc)
                 IN  IF Len(got) >= max_outreach_per_target THEN got
                     ELSE walk(u + 1, got)
    IN  walk(1, <<>>)

\* the contacts list scrape_contacts_from_target returns for these answers
scrape_contacts_from_target(pages, target) ==
    LET RECURSIVE addPage(_, _, _)
        addPage(pc_, k, acc) ==
            IF k > Len(pc_) THEN acc
            ELSE addPage(pc_, k + 1,
                     IF ~is_test_email(pc_[k].email)
                        /\ pc_[k].email \notin {acc[j].email : j \in DOMAIN acc}
                     THEN Append(acc, pc_[k]) ELSE acc)
        RECURSIVE walk(_, _)
        walk(u, acc) ==
            IF u > Len(pages) THEN acc
            ELSE IF pages[u].status_code # 200 THEN walk(u + 1, acc)
            ELSE LET got == addPage(extract_contacts_from_page(pages[u].emails, target),
                                    1, acc)
                 IN  IF Len(got) >= max_outreach_per_target THEN got
                     ELSE walk(u + 1, got)
    IN  walk(1, <<>>)

\* "Add new contacts (avoid duplicates)": c.email not in existing_emails
MergeContacts(cs, new) ==
    cs \o SelectSeq(new, LAMBDA c : c.email \notin {cs[j].email : j \in DOMAIN cs})

\* "Update target info" done only when the scrape found a contact
ScrapedOnSuccess(target, found, t) ==
    IF found = <<>> THEN target
    ELSE [target EXCEPT !.contacts_found = Len(found), !.last_scraped = <<t>>]

\* "Update target info" at the end of scrape_contacts_from_target
Scraped(target, found, t) ==
    [target EXCEPT !.contacts_found = Len(found), !.last_scraped = <<t>>]

\* "Skip if recently scraped (within 7 days)"
RecentlyScraped(target, t) ==
    /\ target.last_scraped # <<>>
    /\ t - target.last_scraped[1] < RescrapeDays

\* main, --mode discover: discover_new_targets, which saves the targets
CmdDiscover ==
    /\ pc = "idle"
    /\ \E new \in NewTargetLists :
          /\ targets' = ConstructedTargets(dTargets)
                            \o UniqueTargets(ConstructedTargets(dTargets), new)
          /\ dTargets' = targets'
    /\ pc' = "discover"
    /\ sess' = [NoSess EXCEPT !.k = 1]
    /\ SetMem(Memory(dContacts, dPending, dLog, <<>>))
    /\ scraped' = <<>>
    /\ batch' = NoBatch
    /\ UNCHANGED <<now, opt_outs, calls, dContacts, dPending, dLog, nextId, lastPass>>

\* one iteration of "for target in self.targets"
DiscoverStep ==
    /\ pc = "discover"
    /\ sess.k <= Len(targets)
    /\ sess' = [sess EXCEPT !.k = @ + 1]
    /\ IF RecentlyScraped(targets[sess.k], now)
       THEN UNCHANGED <<targets, contacts, scraped>>
       ELSE \E r \in {[found |-> scrape_contacts_from_target(pages, targets[sess.k]),
                        failed |-> ScrapeFailed(pages)] : pages \in SiteInputs} :
                   /\ Len(MergeContacts(contacts, r.found)) <= MaxStore
                   /\ targets' = [targets EXCEPT ![sess.k] = Scraped(@, r.found, now)]
                   /\ contacts' = MergeContacts(contacts, r.found)
                   /\ scraped' = Append(scraped, [k |-> sess.k,
                                                  website |-> targets[sess.k].website,
                                                  found |-> r.found, failed |-> r.failed])
    /\ UNCHANGED <<now, opt_outs, calls, dContacts, dPending, dLog, pending_outreach,
                   outreach_log, pc, nextId, attempts, batch, dTargets, lastPass>>

\* "Save updated data": save_contacts, save_targets
DiscoverFinish ==
    /\ pc = "discover"
    /\ sess.k > Len(targets)
    /\ dContacts' = contacts
    /\ dTargets' = targets
    /\ Exit
    /\ targets' = <<>>
    /\ lastPass' = <<[at |-> now, targets |-> targets]>>
    /\ scraped' = <<>>
    /\ UNCHANGED <<now, opt_outs, calls, dPending, dLog, nextId, batch>>

\* KeyboardInterrupt during the pass: main logs it and the process ends
DiscoverInterrupt ==
    /\ pc = "discover"
    /\ Exit
    /\ targets' = <<>>
    /\ lastPass' = <<>>
    /\ scraped' = <<>>
    /\ UNCHANGED <<now, opt_outs, calls, dContacts, dPending, dLog, nextId, batch, dTargets>>

\* new_targets of add_new_startup_targets (the code lists twenty)
StartupTargets == <<"ycombinator">>

\* add_new_startup_targets: the new targets are saved, then scraped and merged,
\* then the contacts are saved
AddNewStartupTargets ==
    /\ pc = "idle"
    /\ LET loaded == ConstructedTargets(dTargets)
           unique == UniqueTargets(loaded, StartupTargets)
           RECURSIVE merge(_, _, _)
           merge(k, cs, pages) ==
               IF k > Min(Len(unique), 5) THEN cs
               ELSE merge(k + 1,
                          MergeContacts(cs,
                              scrape_contacts_from_target(pages[k], unique[k])),
                          pages)
       IN  /\ unique # <<>>
           /\ dTargets' = loaded \o unique
           /\ \E pages \in [1..Min(Len(unique), 5) -> SiteInputs] :
                 /\ Len(merge(1, dContacts, pages)) <= MaxStore
                 /\ dContacts' = merge(1, dContacts, pages)
    /\ scraped' = <<>>
    /\ batch' = NoBatch
    /\ lastPass' = <<>>
    /\ UNCHANGED <<now, opt_outs, calls, dPending, dLog, contacts, pending_outreach,
                   outreach_log, pc, sess, nextId, attempts, targets>>

\* RescrapeDays pass
DiscoverTick ==
    /\ pc = "idle"
    /\ now + RescrapeDays <= MaxDay
    /\ now' = now + RescrapeDays
    /\ batch' = NoBatch
    /\ UNCHANGED <<opt_outs, calls, dContacts, dPending, dLog, contacts, pending_outreach,
                   outreach_log, pc, sess, nextId, attempts>>
    /\ UNCHANGED discVars

\* contacts.json before the first pass: empty as setup_outreach.py creates it, or
\* one record with its address in the letter case of the page it came from
InitStores ==
    {<<>>} \cup {<<NewContact(e, "thenextweb")>> : e \in RawEmails \ {Email("t", "example", FALSE)}}

InitDisc ==
    /\ now = 0
    /\ opt_outs = load_opt_outs(0)
    /\ calls = NoCalls
    /\ dContacts \in InitStores
    /\ dPending = <<>>
    /\ dLog = <<>>
    /\ contacts = <<>>
    /\ pending_outreach = <<>>
    /\ outreach_log = <<>>
    /\ pc = "idle"
    /\ sess = NoSess
    /\ nextId = 1
    /\ attempts = <<>>
    /\ batch = NoBatch
    /\ targets = <<>>
    /\ dTargets = <<>>
    /\ scraped = <<>>
    /\ lastPass = <<>>

NextDisc ==
    \/ CmdDiscover
    \/ DiscoverStep
    \/ DiscoverFinish
    \/ DiscoverInterrupt
    \/ DiscoverTick

SpecDisc == InitDisc /\ [][NextDisc]_vars

-----------------------------------------------------------------------------
(* Properties stated under SpecDisc *)

\* C5: after any sequence of discovery passes from a store with unique emails, no
\* two distinct Contact records of the store have the same lower-cased email,
\* whatever the scraper returns.
C5_DedupInvariant ==
    \A i, j \in DOMAIN dContacts :
        i # j => [dContacts[i].email EXCEPT !.uc = FALSE]
                     # [dContacts[j].email EXCEPT !.uc = FALSE]


-----------------------------------------------------------------------------
(* Properties of the queue, the log and the stores, stated under Spec *)

\* C11: at every persistence point each entry of the queue is Staged
\* (approved=false, sent=false) or Approved&Sent (approved=true, sent=true), and
\* an entry that is Approved&Sent never returns to Staged.
C11_StagedOrSent ==
    /\ [](\A k \in DOMAIN dPending : dPending[k].sent = dPending[k].approved)
    /\ [][\A k \in DOMAIN dPending : \A j \in DOMAIN dPending' :
             (dPending[k].sent /\ dPending'[j].id = dPending[k].id)
                 => (dPending'[j].sent /\ dPending'[j].approved)]_vars

\* the persisted queue holds an Approved&Sent entry next to a Staged one
C11_Witness ==
    \E k, j \in DOMAIN dPending :
        /\ dPending[k].sent /\ dPending[k].approved
        /\ ~dPending[j].sent /\ ~dPending[j].approved


\* a step in which the running process made one more transport attempt
NewAttempt == Len(attempts') = Len(attempts) + 1

\* C12: on a transport failure in send_outreach_message exactly one log entry
\* with status failed and the error text is appended, no contact field changes,
\* the call returns false (the loop counts no send) and the entry stays as it
\* was, Staged, so that a later session attempts it again.
C12_FailureLeavesEntryStaged ==
    [][(NewAttempt /\ ~attempts'[Len(attempts')].ok) =>
          /\ Len(outreach_log') = Len(outreach_log) + 1
          /\ SubSeq(outreach_log', 1, Len(outreach_log)) = outreach_log
          /\ outreach_log'[Len(outreach_log')].status = "failed"
          /\ outreach_log'[Len(outreach_log')].contact_email
                 = attempts'[Len(attempts')].email
          /\ "error" \in DOMAIN outreach_log'[Len(outreach_log')]
          /\ contacts' = contacts
          /\ pending_outreach' = pending_outreach
          /\ sess'.sent_count = sess.sent_count
          /\ \A j \in DOMAIN pending_outreach' :
                pending_outreach'[j].id = attempts'[Len(attempts')].id
                   => pending_outreach'[j].sent = attempts'[Len(attempts')].wasSent]_vars

\* a session attempts, with success, an entry whose earlier attempt failed and
\* was logged as failed
C12_Witness ==
    \E k \in DOMAIN attempts :
        /\ attempts[k].ok
        /\ ~attempts[k].wasSent
        /\ \E l \in DOMAIN dLog :
              /\ dLog[l].status = "failed"
              /\ dLog[l].contact_email = attempts[k].email
        /\ \E j \in DOMAIN dPending :
              dPending[j].id = attempts[k].id /\ ~dPending[j].sent


\* a step of send_batch_messages or send_all_pending whose call of
\* send_outreach_message is refused: the recipient is in the opt-out registry
RefusedStep ==
    /\ pc \in {"batch", "send_all"}
    /\ pc' = pc
    /\ sess'.k = sess.k + 1
    /\ \E j \in DOMAIN pending_outreach :
          /\ pending_outreach[j].id = sess.sel[sess.k]
          /\ pc = "batch" => ~pending_outreach[j].sent
          /\ [pending_outreach[j].contact.email EXCEPT !.uc = FALSE]
                 \in OptedOutLower(opt_outs)

\* C13: a send refused because the recipient is opted out is a no-op: no log
\* entry is appended, no contact field changes, the entry stays as it was, and
\* the refusal is counted neither as sent nor as failed in the totals of
\* send_batch_messages and send_all_pending.
C13_RefusalIsNoOp ==
    [][RefusedStep =>
          /\ outreach_log' = outreach_log
          /\ contacts' = contacts
          /\ pending_outreach' = pending_outreach
          /\ sess'.sent_count = sess.sent_count
          /\ sess'.failed_count = sess.failed_count]_vars


\* C14: every dispatch mode persists all three stores when its session ends:
\* the persisted queue, contact store and log each equal the in-memory state.
C14_AllStoresPersisted ==
    [][SessionEnds =>
          /\ dPending' = SavedPending(pending_outreach)
          /\ dContacts' = contacts
          /\ dLog' = outreach_log]_vars


\* a dispatch session is cut short: KeyboardInterrupt, or the review loop left
\* by the operator's quit (or run to its end) and saved
CutShort == Interrupt \/ ReviewFinish

\* C15: when a dispatch session is cut short by an operator Quit or by a
\* KeyboardInterrupt after some entries were sent, the entries sent so far are
\* persisted as sent, with their log entries, before the process exits, and the
\* entries not yet processed remain Staged in the persisted queue.
C15_CancellationPersistsProgress ==
    [][CutShort =>
          /\ \A k \in DOMAIN attempts :
                attempts[k].ok =>
                   /\ \E j \in DOMAIN dPending' :
                         dPending'[j].id = attempts[k].id /\ dPending'[j].sent
                   /\ \E l \in DOMAIN dLog' :
                         /\ dLog'[l].status = "sent"
                         /\ dLog'[l].contact_email = attempts[k].email
          /\ \A j \in DOMAIN pending_outreach :
                ~pending_outreach[j].sent =>
                   \E i \in DOMAIN dPending' :
                      dPending'[i].id = pending_outreach[j].id /\ ~dPending'[i].sent]_vars


-----------------------------------------------------------------------------
(* SpecReview: the processes of Spec with an operator who may also answer    *)
(* "edit" in individual review.                                              *)

ReviewEditStep == ReviewLoop({"send", "edit", "skip", "quit"})

NextReview ==
    \/ CmdOptOut
    \/ CmdOutreach
    \/ CmdReview
    \/ CmdSend
    \/ ChooseMode
    \/ BatchStep
    \/ BatchFinish
    \/ ReviewEditStep
    \/ ReviewFinish
    \/ SendAllStep
    \/ SendAllFinish
    \/ Interrupt

SpecReview == Init /\ [][NextReview]_vars

\* C16: in individual review, once the operator answers Quit at a decision
\* prompt, the first or the one shown after an Edit, the session halts at once:
\* no later entry of the queue is presented or sent in that session.
C16_QuitHaltsReview ==
    (pc = "review" /\ sess.quit) => sess.k > Len(sess.sel)


-----------------------------------------------------------------------------
(* Unattended runs, stated under Spec *)

\* main, --mode outreach --non-interactive (with or without --dry-run), which is
\* also what the daily automation's outreach phase does when --interactive is
\* not given: bot.run_outreach_phase(interactive=False)
UnattendedRun == \E dry \in BOOLEAN : OutreachCmd(FALSE, dry, TRUE, FALSE, FALSE)

\* C17: an unattended outreach run sends every Staged entry without prompts:
\* after the run no entry of the queue is left Staged.
C17_UnattendedRunSendsAll ==
    [][UnattendedRun => \A j \in DOMAIN dPending' : dPending'[j].sent]_vars

-----------------------------------------------------------------------------
(* Re-discovery, stated under SpecDisc *)

\* a discovery pass runs less than RescrapeDays after a completed pass, no other
\* writer of targets.json in between
SecondPass ==
    /\ pc = "discover"
    /\ lastPass # <<>>
    /\ now - lastPass[1].at < RescrapeDays

\* discover_new_targets of this pass added no target to the list
SameTargetList == Len(targets) = Len(lastPass[1].targets)

\* the pass called the scraper for no target, added no contact and left every
\* target's last_scraped and contacts_found as the completed pass saved them
PassIsNoOp ==
    /\ scraped = <<>>
    /\ contacts = dContacts
    /\ targets = lastPass[1].targets

-----------------------------------------------------------------------------
(* SpecOptOut: main --mode opt-out run again and again as the days pass *)

\* the addresses given as --email: two emails, each in two letter cases
OptOutCallInputs ==
    {Email("a", "acme", uc) : uc \in BOOLEAN} \cup {Email("c", "corp", uc) : uc \in BOOLEAN}

\* the texts given as --reason
OptOutReasons == {"", "unsubscribe"}

OptOutCall == \E e \in OptOutCallInputs : \E reason \in OptOutReasons : OptOut(e, reason)

\* a day passes between two processes
DayPasses ==
    /\ pc = "idle"
    /\ now < MaxDay
    /\ now' = now + 1
    /\ UNCHANGED <<opt_outs, calls, dContacts, dPending, dLog, contacts, pending_outreach,
                   outreach_log, pc, sess, nextId, attempts, batch>>
    /\ UNCHANGED discVars

NextOptOut ==
    \/ OptOutCall
    \/ DayPasses

SpecOptOut == Init /\ [][NextOptOut]_vars

-----------------------------------------------------------------------------
(* Properties stated under SpecOptOut *)

\* add_opt_out was called before for this email, in some letter case
CalledBefore(e) == \E a \in calls.added : Lower(a) = Lower(e)

\* C19: add_opt_out is idempotent and case-insensitive: the first call for an
\* email returns true and appends exactly one entry, with the email lower-cased;
\* a later call for the same email in any letter case returns false and leaves
\* the registry (entries, total_opt_outs, last_updated, hence the file) as it was;
\* so the registry never holds two entries with the same lower-cased email, and
\* is_opted_out is true of every email add_opt_out was called for.
C19_AddOptOutIdempotent ==
    /\ [](/\ \A i, j \in DOMAIN opt_outs.opt_outs :
                i # j => Lower(opt_outs.opt_outs[i].email) # Lower(opt_outs.opt_outs[j].email)
          /\ \A e \in calls.added : is_opted_out(opt_outs, e))
    /\ [][\A e \in OptOutCallInputs :
            (\E reason \in OptOutReasons : OptOut(e, reason)) =>
                IF CalledBefore(e)
                THEN /\ calls'.ret = <<FALSE>>
                     /\ opt_outs' = opt_outs
                ELSE /\ calls'.ret = <<TRUE>>
                     /\ Len(opt_outs'.opt_outs) = Len(opt_outs.opt_outs) + 1
                     /\ SubSeq(opt_outs'.opt_outs, 1, Len(opt_outs.opt_outs)) = opt_outs.opt_outs
                     /\ opt_outs'.opt_outs[Len(opt_outs'.opt_outs)].email = Lower(e)
                     /\ opt_outs'.total_opt_outs = opt_outs.total_opt_outs + 1]_vars

\* an email added in lower case on one day was given again in capitals on a later
\* day, next to another email's entry, and the call returned false
C19_Witness ==
    /\ calls.ret = <<FALSE>>
    /\ calls.last = <<Email("a", "acme", TRUE)>>
    /\ Len(opt_outs.opt_outs) = 2
    /\ \E k \in DOMAIN opt_outs.opt_outs :
          /\ opt_outs.opt_outs[k].email = Email("a", "acme", FALSE)
          /\ opt_outs.opt_outs[k].timestamp < now
    /\ opt_outs.total_opt_outs = 2
    /\ opt_outs.last_updated < now

-----------------------------------------------------------------------------
(* SpecEngine: every mode of main, the discovery pass included *)

NextEngine ==
    \/ CmdOptOut
    \/ CmdOutreach
    \/ CmdReview
    \/ CmdSend
    \/ ChooseMode
    \/ BatchStep
    \/ BatchFinish
    \/ ReviewStep
    \/ ReviewFinish
    \/ SendAllStep
    \/ SendAllFinish
    \/ Interrupt
    \/ CmdDiscover
    \/ DiscoverStep
    \/ DiscoverFinish
    \/ DiscoverInterrupt

SpecEngine == Init /\ [][NextEngine]_vars

-----------------------------------------------------------------------------
(* Properties stated under SpecEngine *)

IsPrefix(s, t) == Len(s) <= Len(t) /\ SubSeq(t, 1, Len(s)) = s

\* the step leaves a process running
ProcessContinues == pc # "idle" /\ pc' # "idle"

\* the step starts a process, which loads outreach_log.json
ProcessStarts == pc = "idle" /\ pc' # "idle"

\* C20: the OutreachLog is append-only: every step of the engine (a successful,
\* failed or refused send, composition, discovery, an opt-out) keeps the entries
\* of outreach_log.json and of the running process's log as they are and where
\* they are; the process's log grows by exactly one entry with each transport
\* attempt, for the attempt's email and outcome, and not otherwise; a save writes
\* the process's log, so the file gains at most one entry per attempt.
C20_LogAppendOnly ==
    /\ [](pc # "idle" =>
            /\ IsPrefix(dLog, outreach_log)
            /\ Len(outreach_log) - Len(dLog) <= Len(attempts))
    /\ [][/\ IsPrefix(dLog, dLog')
          /\ dLog' # dLog => dLog' = outreach_log
          /\ ProcessStarts =>
                /\ IsPrefix(dLog, outreach_log')
                /\ Len(outreach_log') - Len(dLog) = Len(attempts')
          /\ ProcessContinues =>
                /\ IsPrefix(outreach_log, outreach_log')
                /\ Len(outreach_log') - Len(outreach_log) = Len(attempts') - Len(attempts)
                /\ NewAttempt =>
                      LET a == attempts'[Len(attempts')]
                          e == outreach_log'[Len(outreach_log')]
                      IN  /\ e.contact_email = a.email
                          /\ e.status = IF a.ok THEN "sent" ELSE "failed"]_vars

\* after an opt-out and a discovery pass, a process that loaded a log holding a
\* failed entry has appended a sent entry to it and has passed a refused send
C20_Witness ==
    /\ pc \in {"batch", "send_all", "review"}
    /\ opt_outs.opt_outs # <<>>
    /\ lastPass # <<>>
    /\ \E k \in DOMAIN dLog : dLog[k].status = "failed"
    /\ Len(outreach_log) > Len(dLog)
    /\ outreach_log[Len(outreach_log)].status = "sent"
    /\ sess.failed_count > 0

-----------------------------------------------------------------------------
(* SpecTargets: every writer of targets.json, from an empty store *)

\* str.lower() of a target name
LowerName(n) ==
    CASE n = "TechEU" -> "techeu"
      [] n = "Tech.eu" -> "tech.eu"
      [] OTHER -> n

\* get_regional_targets (the code lists fifty-four): its first and its third
\* entry, which name the same website
RegionalTargets == <<NamedTarget("TechEU", "tech.eu"), NamedTarget("Tech.eu", "tech.eu")>>

\* the loop of add_regional_targets over new, existing_names computed before it
AppendUnknownNames(existing, new) ==
    LET existing_names == {LowerName(existing[k].name) : k \in DOMAIN existing}
    IN  existing \o SelectSeq(new, LAMBDA t : LowerName(t.name) \notin existing_names)

\* add_regional_targets.py: targets.json read as it is, extended, written
AddRegionalTargets ==
    /\ pc = "idle"
    /\ dTargets' = AppendUnknownNames(dTargets, RegionalTargets)
    /\ lastPass' = <<>>
    /\ batch' = NoBatch
    /\ UNCHANGED <<now, opt_outs, calls, dContacts, dPending, dLog, contacts,
                   pending_outreach, outreach_log, pc, sess, nextId, attempts, targets,
                   scraped>>

\* StartupOutreachBot() constructed by a script that then writes nothing
\* (preview_outreach.py, --mode report): an empty target list is seeded and saved
Construct ==
    /\ pc = "idle"
    /\ dTargets' = ConstructedTargets(dTargets)
    /\ batch' = NoBatch
    /\ UNCHANGED <<now, opt_outs, calls, dContacts, dPending, dLog, contacts,
                   pending_outreach, outreach_log, pc, sess, nextId, attempts, targets,
                   scraped, lastPass>>

NextTargets ==
    \/ Construct
    \/ AddRegionalTargets
    \/ AddNewStartupTargets
    \/ CmdDiscover
    \/ DiscoverStep
    \/ DiscoverFinish
    \/ DiscoverInterrupt

\* no script has run yet: no target and no contact stored
InitTargets == InitDisc /\ dContacts = <<>>

SpecTargets == InitTargets /\ [][NextTargets]_vars

-----------------------------------------------------------------------------
(* Properties stated under SpecTargets *)

\* C21: website is a unique key of the Targets store: after any sequence of
\* target-adding operations (default seeding, discover_new_targets,
\* add_new_startup_targets, add_regional_targets) from an empty store, no two
\* targets of targets.json have the same website.
C21_WebsiteUnique ==
    \A i, j \in DOMAIN dTargets : i # j => dTargets[i].website # dTargets[j].website

-----------------------------------------------------------------------------
(* Order and frame of a dispatch session, stated under Spec *)

\* identities are given in queue order: an entry further down the queue has the
\* greater identity
QueueOrderIsIdOrder ==
    /\ \A i, j \in DOMAIN pending_outreach :
          i < j => pending_outreach[i].id < pending_outreach[j].id
    /\ \A i, j \in DOMAIN dPending : i < j => dPending[i].id < dPending[j].id

\* C22: within one dispatch session transport attempts happen in queue order:
\* of two entries attempted in the same session, the one at the lower queue
\* position is attempted first, in every mode, selective send with an index list
\* in arbitrary order included.
C22_AttemptsInQueueOrder ==
    \A a, b \in DOMAIN attempts :
        (a < b /\ attempts[a].id # attempts[b].id) => attempts[a].id < attempts[b].id

\* send_batch_messages attempts only entries of the list it was given
OnlySelectedAttempted ==
    pc = "batch" => \A a \in DOMAIN attempts : attempts[a].id \in Range(sess.sel)

\* an entry the list does not name has the flags and the message it was saved with
UnselectedUntouched ==
    pc = "batch" =>
        \A j \in DOMAIN pending_outreach : \A k \in DOMAIN dPending :
            (/\ pending_outreach[j].id \notin Range(sess.sel)
             /\ dPending[k].id = pending_outreach[j].id)
                => /\ pending_outreach[j].approved = dPending[k].approved
                   /\ pending_outreach[j].sent = dPending[k].sent
                   /\ pending_outreach[j].message = dPending[k].message

\* no entry is attempted twice in one send_batch_messages
AttemptedOnce ==
    pc = "batch" =>
        \A a, b \in DOMAIN attempts : a # b => attempts[a].id # attempts[b].id

\* C23: selective send touches exactly the selected entries: only the entries at
\* the 1-based queue positions the operator typed are attempted, each at most
\* once per session also when a number is repeated; an entry at a position not
\* typed keeps its approved and sent flags and its message, and no transport
\* attempt is made for it.
C23_SelectiveSendFrame == OnlySelectedAttempted /\ UnselectedUntouched /\ AttemptedOnce

-----------------------------------------------------------------------------
(* SpecCompose: run_outreach_phase(interactive=False) run again and again over *)
(* a store in which one organization has more eligible contacts than the cap   *)

MaxStaged == 8          \* PendingOutreach entries staged over a whole run

\* contacts.json: five contacts of Acme on five domains, and two of Beta, the
\* first on a domain of Acme's
ComposeStore ==
    << NewContact(Email("a", "d1", FALSE), "Acme"),
       NewContact(Email("b", "d2", FALSE), "Acme"),
       NewContact(Email("c", "d3", FALSE), "Acme"),
       NewContact(Email("d", "d4", FALSE), "Acme"),
       NewContact(Email("e", "d5", FALSE), "Acme"),
       NewContact(Email("f", "d1", FALSE), "Beta"),
       NewContact(Email("g", "d6", FALSE), "Beta") >>

InitCompose ==
    /\ now = 0
    /\ opt_outs = load_opt_outs(0)
    /\ calls = NoCalls
    /\ dContacts = ComposeStore
    /\ dPending = <<>>
    /\ dLog = <<>>
    /\ contacts = <<>>
    /\ pending_outreach = <<>>
    /\ outreach_log = <<>>
    /\ pc = "idle"
    /\ sess = NoSess
    /\ nextId = 1
    /\ attempts = <<>>
    /\ batch = NoBatch
    /\ targets = <<>>
    /\ dTargets = <<>>
    /\ scraped = <<>>
    /\ lastPass = <<>>

\* daily_automation, run_outreach_phase: bot.run_outreach_phase(interactive=False)
\* composes, extends the queue, saves it and returns
ComposePass ==
    /\ pc = "idle"
    /\ nextId <= MaxStaged
    /\ \E new \in ComposeOutcomes(dContacts,
                      EligibleContacts(dContacts, opt_outs, dLog, now), FALSE) :
          /\ nextId + Len(new) - 1 <= MaxStaged
          /\ nextId' = nextId + Len(new)
          /\ batch' = BatchRecord(new)
          /\ dPending' = SavedPending(ComposedQueue(new))
    /\ UNCHANGED <<now, opt_outs, calls, dContacts, dLog, contacts, pending_outreach,
                   outreach_log, pc, sess, attempts>>
    /\ UNCHANGED discVars

NextCompose == ComposePass

SpecCompose == InitCompose /\ [][NextCompose]_vars

-----------------------------------------------------------------------------
(* Properties stated under SpecCompose *)

\* the staged contacts (positions in batch.staged) of organization org
StagedOf(org) == {k \in DOMAIN batch.staged : batch.store[batch.staged[k]].organization = org}

\* the eligible contacts of org that no entry staged earlier in the pass for
\* another organization claims by email or by domain
UnclaimedOf(org) ==
    {i \in Range(batch.eligible) :
        /\ batch.store[i].organization = org
        /\ \A k \in DOMAIN batch.staged :
              LET c == batch.store[batch.staged[k]]
              IN  (c.organization # org /\ \A m \in StagedOf(org) : k < m)
                    => /\ Lower(c.email) # Lower(batch.store[i].email)
                       /\ get_domain_from_email(c.email)
                              # get_domain_from_email(batch.store[i].email)}

\* C24: per-organization bound: in one composition pass, for each organization
\* the number of entries staged is at most max_outreach_per_target (4) and at
\* most the number of its eligible contacts not yet claimed by email or domain;
\* each contact is staged at most once; the entries already in the queue stay
\* unchanged ahead of the new ones, which are all Staged (approved and sent false).
C24_PerOrganizationBound ==
    batch.ran =>
        /\ \A org \in {batch.store[i].organization : i \in DOMAIN batch.store} :
              /\ Cardinality(StagedOf(org)) <= max_outreach_per_target
              /\ Cardinality(StagedOf(org)) <= Cardinality(UnclaimedOf(org))
        /\ \A k, m \in DOMAIN batch.staged : k # m => batch.staged[k] # batch.staged[m]
        /\ Len(dPending) = Len(batch.before) + Len(batch.staged)
        /\ SubSeq(dPending, 1, Len(batch.before)) = batch.before
        /\ \A k \in DOMAIN batch.staged :
              LET p == dPending[Len(batch.before) + k]
              IN  /\ p.contact = batch.store[batch.staged[k]]
                  /\ ~p.approved
                  /\ ~p.sent

\* a second pass over a queue that held three entries staged four of Acme's five
\* eligible contacts and Beta's one
C24_Witness ==
    /\ batch.ran
    /\ Len(batch.before) = 3
    /\ Cardinality(StagedOf("Acme")) = max_outreach_per_target
    /\ Cardinality(UnclaimedOf("Acme")) = max_outreach_per_target + 1
    /\ Cardinality(StagedOf("Beta")) = 1
    /\ Cardinality(UnclaimedOf("Beta")) = 1

\* C28: at any time the PendingOutreach queue holds at most one Staged (unsent)
\* entry per contact email, also after several composition passes are run with
\* no dispatch in between.
C28_OneStagedPerEmail ==
    \A i, j \in DOMAIN dPending :
        (i # j /\ ~dPending[i].sent /\ ~dPending[j].sent)
            => Lower(dPending[i].contact.email) # Lower(dPending[j].contact.email)


-----------------------------------------------------------------------------
(* Delay between transport attempts, stated under Spec *)

\* C25: between any two consecutive transport attempts of one dispatch session
\* there is a blocking delay drawn from the configured dispatcher range (30 to 60
\* seconds), in every dispatch mode and whether the earlier attempt succeeded or
\* failed.
C25_DelayBetweenAttempts ==
    \A n \in DOMAIN sess.delays :
        (n < Len(attempts) /\ ~attempts[n].dry) => rate_limit_delay \in sess.delays[n]


-----------------------------------------------------------------------------
(* Persistence during a discovery pass, stated under SpecDisc *)

\* C26: discovery writes the Contact and Target stores only after the full pass:
\* after every step of run_discovery_phase before the final save (the point a
\* crash can happen at), the persisted Contact store is what it was before the
\* step, and the persisted Target store is what it was when the pass started,
\* that is what the constructor loaded or seeded.
C26_StoresWrittenOnlyAtEnd ==
    [][pc' = "discover" =>
          /\ dContacts' = dContacts
          /\ dTargets' = ConstructedTargets(dTargets)]_vars


-----------------------------------------------------------------------------
(* Scrape failures in a discovery pass, stated under SpecDisc *)

\* the targets the loop of run_discovery_phase has gone past
Visited == 1..(sess.k - 1)

\* the addresses of a list of contacts
EmailsOf(cs) == {cs[i].email : i \in DOMAIN cs}

-----------------------------------------------------------------------------
(* The log and the Contact store over several runs, stated under Spec *)

\* the positions of the status=sent entries of a log
SentEntries(lg) == {l \in DOMAIN lg : lg[l].status = "sent"}

\* C29: over any sequence of composition and dispatch operations of any number
\* of processes, the persisted OutreachLog never holds two status=sent entries
\* for the same contact email less than 30 days apart, nor two status=sent
\* entries for the same email domain less than 7 days apart.
C29_NoRepeatWithinCooldown ==
    \A i, j \in SentEntries(dLog) :
        i < j =>
           /\ Lower(dLog[i].contact_email) = Lower(dLog[j].contact_email)
                 => dLog[j].timestamp - dLog[i].timestamp >= CooldownDays
           /\ get_domain_from_email(dLog[i].contact_email)
                    = get_domain_from_email(dLog[j].contact_email)
                 => dLog[j].timestamp - dLog[i].timestamp >= DomainDays


\* the number of status=sent entries of lg whose contact_email is e
SentTo(lg, e) == Cardinality({l \in SentEntries(lg) : lg[l].contact_email = e})

\* C30: starting from an empty log and contacts with outreachCount 0, at every
\* persistence point each Contact store record's outreachCount equals the
\* number of status=sent OutreachLog entries for that contact's email, and its
\* lastContact is set exactly when that number is positive.
C30_CountMatchesLog ==
    \A i \in DOMAIN dContacts :
        /\ dContacts[i].outreach_count = SentTo(dLog, dContacts[i].email)
        /\ dContacts[i].last_contact # <<>> <=> SentTo(dLog, dContacts[i].email) > 0

====
